---- MODULE Spec2Model ----
(***************************************************************************)
(* Umbra.js (src/umbra.js): hiding of Frappe UI regions.                   *)
(*                                                                         *)
(* The state is the part of the browser page Umbra reads and writes: the   *)
(* inline style of the elements its selectors match, the timeline items,   *)
(* the remote fetches in flight, and the ambient globals (window.cur_frm,  *)
(* Utils, frappe.boot, the host name).  Every public operation is one      *)
(* action; the handler's code is an operator from the call's props to the  *)
(* result of the call (new styles, the trace of what it invoked, and the   *)
(* exception it raised, if any).                                           *)
(***************************************************************************)
EXTENDS Integers, Sequences, FiniteSets, TLC

VARIABLES
    route,      \* the page rendered in the browser: decides which elements exist
    curFrm,     \* TRUE iff window.cur_frm is set and has a doctype
    utils,      \* TRUE iff the global Utils is defined
    boot,       \* frappe.boot.developer_mode: "undefined", "true" or "false"
    hostname,   \* window.location.hostname
    style,      \* element -> inline cssText of the element
    items,      \* the .timeline-item elements inside .timeline-items, in order
    pending,    \* frappe.call requests issued and not yet completed
    last        \* the most recent call (or fetch completion) and what it did

vars == <<route, curFrm, utils, boot, hostname, style, items, pending, last>>

----------------------------------------------------------------------------
(* Bounds of the model *)

MaxItems == 2       \* timeline items on the page
MaxPending == 2     \* fetches in flight at the same time

----------------------------------------------------------------------------
(* The page *)

Routes == {"Form", "Workspaces", "List"}

Elements ==
    {"actionsBtnGroup", "commentBox", "formSidebar", "formToggleBtn",
     "newTimeline", "timelineItems", "showAllActivity",
     "wsEditBtn", "wsNewBtn", "wsSidebar", "wsToggleBtn",
     "listSidebar", "listToggleBtn"}

\* The elements the page of a route renders.
PageElements(r) ==
    CASE r = "Form" ->
            {"actionsBtnGroup", "commentBox", "formSidebar", "formToggleBtn",
             "newTimeline", "timelineItems", "showAllActivity"}
      [] r = "Workspaces" ->
            {"wsEditBtn", "wsNewBtn", "wsSidebar", "wsToggleBtn"}
      [] OTHER ->
            {"actionsBtnGroup", "listSidebar", "listToggleBtn"}

\* The elements a selector of the source matches, wherever they are rendered.
Matches(sel) ==
    CASE sel = ".actions-btn-group" -> {"actionsBtnGroup"}
      [] sel = ".comment-box" -> {"commentBox"}
      [] sel = ".layout-side-section:has(.form-sidebar)" -> {"formSidebar"}
      [] sel = "button.sidebar-toggle-btn" ->
            {"formToggleBtn", "wsToggleBtn", "listToggleBtn"}
      [] sel = ".new-timeline" -> {"newTimeline"}
      [] sel = ".timeline-items" -> {"timelineItems"}
      [] sel = ".show-all-activity" -> {"showAllActivity"}
      [] sel = "[data-page-route=Workspaces] .workspace-footer [data-label=Edit]" ->
            {"wsEditBtn"}
      [] sel = "[data-page-route=Workspaces] .workspace-footer [data-label=New]" ->
            {"wsNewBtn"}
      [] sel = "[data-page-route=Workspaces] .layout-side-section" -> {"wsSidebar"}
      [] sel = "[data-page-route^=List] .layout-side-section" -> {"listSidebar"}
      [] sel = "[data-page-route^=List] button.sidebar-toggle-btn" -> {"listToggleBtn"}
      [] OTHER -> {}

\* $(sel): the matched elements that exist on the current page.
Select(sel) == Matches(sel) \cap PageElements(route)

\* Inline cssText values the source writes, and the ones jQuery's hide()
\* and show() leave behind.
CssNoneImportant == "display: none !important;"
CssNone == "display: none"
CssBlock == "display: block"
CssJqHidden == "display: none;"
CssEmpty == ""

CssTexts == {CssEmpty, CssBlock, CssNone, CssNoneImportant, CssJqHidden}

\* An element is hidden when its inline style sets display to none.
HiddenCss(c) == c \in {CssNone, CssNoneImportant, CssJqHidden}

\* the write toggles: an element that already carries the text is reset
SetCss_toggles(st, sel, text) ==
    [e \in Elements |->
        IF e \in Select(sel) THEN (IF st[e] = text THEN CssEmpty ELSE text) ELSE st[e]]

\* $(sel).css("cssText", text): replaces the inline style of every match.
SetCss(st, sel, text) ==
    [e \in Elements |-> IF e \in Select(sel) THEN text ELSE st[e]]

\* toggle() in place of hide(): a hidden match is shown again
JqHide_toggles(st, sel) ==
    [e \in Elements |->
        IF e \in Select(sel)
        THEN (IF HiddenCss(st[e]) THEN CssEmpty ELSE CssJqHidden)
        ELSE st[e]]

\* hide() mistaken for show()
JqHide_shows(st, sel) ==
    [e \in Elements |-> IF e \in Select(sel) THEN CssEmpty ELSE st[e]]

\* $(sel).hide(): display none on every match.
JqHide(st, sel) ==
    [e \in Elements |-> IF e \in Select(sel) THEN CssJqHidden ELSE st[e]]

----------------------------------------------------------------------------
(* Ambient collaborators *)

\* frappe.user.has_role(role) for the session's user.
SessionRoles == {"System Manager"}

has_role(role) == role \in SessionRoles

\* Strings the code takes apart (user ids, recipient lists) are sequences of
\* characters.
SessionUser == <<"a">>      \* frappe.session.user
OtherUser == <<"b">>

DevHosts == {"localhost", "127.0.0.1"}

getEnvironmentOf(b, h) ==
    IF b # "undefined"
    THEN (IF b = "true" THEN "development" ELSE "production")
    ELSE IF h # ""
         THEN (IF h \in DevHosts THEN "development" ELSE "production")
         ELSE "production"

getEnvironment == getEnvironmentOf(boot, hostname)

\* The roles userHasRole asks frappe.user.has_role about, in order: it stops
\* at the first role the user holds.
RECURSIVE RolesAsked(_, _)
RolesAsked(roles, i) ==
    IF i > Len(roles) THEN <<>>
    ELSE IF has_role(roles[i]) THEN <<roles[i]>>
    ELSE <<roles[i]>> \o RolesAsked(roles, i + 1)

RECURSIVE userHasRoleFrom(_, _)
userHasRoleFrom(roles, i) ==
    IF i > Len(roles) THEN FALSE
    ELSE IF has_role(roles[i]) THEN TRUE
    ELSE userHasRoleFrom(roles, i + 1)

\* only the first listed role is checked
userHasRole_firstOnly(roles) == Len(roles) > 0 /\ has_role(roles[1])

userHasRole(roles) == userHasRoleFrom(roles, 1)

----------------------------------------------------------------------------
(* Calls: props and results *)

\* What the caller's conditional does each time it is invoked.
Outcomes == {"true", "false", "throw"}

\* An event of a call's trace: what the handler invoked, in order.
Ev(sink, text) == [sink |-> sink, text |-> text]

\* A result in progress: styles, trace, and the exception raised ("" if none).
Res(st, tr, ex) == [style |-> st, trace |-> tr, threw |-> ex]

\* props.debug && getEnvironment() === "development"
DebugOn(p) == p.debug /\ getEnvironment = "development"

\* the line is emitted whatever debug and the environment are
Dbg_ungated(p, sink, text) == <<Ev(sink, text)>>

\* A console/alert line emitted only under the debug gate.
Dbg(p, sink, text) == IF DebugOn(p) THEN <<Ev(sink, text)>> ELSE <<>>

\* Invocation number n of the caller's conditional.
CondEv == Ev("conditional", <<>>)

\* The has_role queries userHasRole(p.roles) makes.
RoleEvs(p) ==
    [i \in 1..Len(RolesAsked(p.roles, 1)) |->
        Ev("has_role", <<RolesAsked(p.roles, 1)[i]>>)]

CssEv(sel, text) == Ev("css", <<sel, text>>)

----------------------------------------------------------------------------
(* Named region hiders *)

\* the polarity of releases before 1.4.0: the conditional's result is not
\* negated when the display value is chosen
actions_flipped(st, p) ==
    IF curFrm /\ p.condKind = "fn" /\ p.condRes[1] # "throw"
       /\ ~(p.permKind = "array" /\ userHasRole(p.roles))
    THEN Res(SetCss(st, ".actions-btn-group",
                    IF p.condRes[1] = "false" THEN CssNone ELSE CssBlock),
             <<CondEv>>, "")
    ELSE Res(st, <<>>, "")

\* Umbra.actions(props)
actions(st, p) ==
    IF ~curFrm
    THEN IF ~p.given
         THEN Res(st, <<>>, "TypeError")        \* props.debug of undefined
         ELSE Res(st, Dbg(p, "console.warn",
                  <<"Umbra.actions(): No doctype specified and window.cur_frm is not available.">>), "")
    ELSE IF p.condKind = "nonfn"
    THEN Res(st, Dbg(p, "console.debug",
                  <<"Umbra.action(): 'conditional' must be a function.">>), "")
    ELSE IF p.permKind = "array" /\ userHasRole(p.roles)
    THEN Res(st, RoleEvs(p) \o Dbg(p, "console.debug",
                  <<"Umbra.actions(): User has bypass role, skipping hide for doctype ">>), "")
    ELSE LET asked == IF p.permKind = "array" THEN RoleEvs(p) ELSE <<>> IN
         IF p.condKind = "fn"
         THEN IF p.condRes[1] = "throw"
              THEN Res(st, asked \o <<CondEv>>, "Error")
              ELSE LET text == IF p.condRes[1] = "false" THEN CssBlock ELSE CssNone
                       st1 == SetCss(st, ".actions-btn-group", text)
                       tr1 == asked \o <<CondEv, CssEv(".actions-btn-group", text), CondEv>>
                   IN IF p.condRes[2] = "throw"
                      THEN Res(st1, tr1, "Error")
                      ELSE Res(st1,
                               tr1 \o (IF p.condRes[2] = "false"
                                       THEN Dbg(p, "console.debug",
                                            <<"Umbra.actions(): Conditional check returned false for doctype ">>)
                                       ELSE <<>>)
                                   \o Dbg(p, "console.debug",
                                          <<"Umbra.actions(): Actions hidden for doctype ">>), "")
         ELSE Res(SetCss(st, ".actions-btn-group", CssNone),
                  asked \o <<CssEv(".actions-btn-group", CssNone)>>
                        \o Dbg(p, "console.debug",
                               <<"Umbra.actions(): Actions hidden for doctype ">>), "")

\* Umbra.comment(props)
comment(st, p) ==
    IF ~curFrm
    THEN IF ~p.given
         THEN Res(st, <<>>, "TypeError")
         ELSE Res(st, Dbg(p, "console.warn",
                  <<"Umbra.comment(): No doctype specified and window.cur_frm is not available.">>), "")
    ELSE IF p.condKind = "fn" /\ p.condRes[1] = "throw"
    THEN Res(st, <<CondEv>>, "Error")
    ELSE IF p.condKind = "fn" /\ p.condRes[1] = "false"
    THEN Res(st, <<CondEv>> \o Dbg(p, "console.debug",
                  <<"Umbra.comment(): Conditional check returned false for doctype ">>), "")
    ELSE LET called == IF p.condKind = "fn" THEN <<CondEv>> ELSE <<>> IN
         IF p.permKind = "array" /\ userHasRole(p.roles)
         THEN Res(st, called \o RoleEvs(p) \o Dbg(p, "console.debug",
                  <<"Umbra.comment(): User has bypass role, skipping comment hiding for doctype ">>), "")
         ELSE Res(SetCss(st, ".comment-box", CssNoneImportant),
                  called \o (IF p.permKind = "array" THEN RoleEvs(p) ELSE <<>>)
                         \o <<CssEv(".comment-box", CssNoneImportant)>>
                         \o Dbg(p, "console.debug",
                                <<"Umbra.comment(): Comment box hidden for doctype ">>), "")

\* Umbra.sidebar(props)
sidebar(st, p) ==
    IF ~curFrm
    THEN IF ~p.given
         THEN Res(st, <<>>, "TypeError")
         ELSE Res(st, Dbg(p, "console.warn",
                  <<"Umbra.sidebar(): No doctype specified and window.cur_frm is not available.">>), "")
    ELSE IF p.condKind = "fn" /\ p.condRes[1] = "throw"
    THEN Res(st, <<CondEv>>, "Error")
    ELSE IF p.condKind = "fn" /\ p.condRes[1] = "false"
    THEN Res(st, <<CondEv>> \o Dbg(p, "console.debug",
                  <<"Umbra.sidebar(): Conditional check returned false for doctype ">>), "")
    ELSE LET called == IF p.condKind = "fn" THEN <<CondEv>> ELSE <<>> IN
         IF p.permKind = "array" /\ userHasRole(p.roles)
         THEN Res(st, called \o RoleEvs(p) \o Dbg(p, "console.debug",
                  <<"Umbra.sidebar(): User has bypass role, skipping sidebar hiding for doctype ">>), "")
         ELSE Res(SetCss(SetCss(st, ".layout-side-section:has(.form-sidebar)", CssNoneImportant),
                         "button.sidebar-toggle-btn", CssNoneImportant),
                  called \o (IF p.permKind = "array" THEN RoleEvs(p) ELSE <<>>)
                         \o <<CssEv(".layout-side-section:has(.form-sidebar)", CssNoneImportant),
                              CssEv("button.sidebar-toggle-btn", CssNoneImportant)>>
                         \o Dbg(p, "console.debug",
                                <<"Umbra.sidebar(): Sidebar hidden for doctype ">>), "")

\* The debug-gated pair of a console warning and a frappe.show_alert notice.
DbgNotFound(p, text) ==
    Dbg(p, "console.warn", text) \o Dbg(p, "show_alert", text)

\* Umbra.workspace.edit(props = {})
workspace_edit(st, p) ==
    IF p.condKind = "fn" /\ p.condRes[1] = "throw"
    THEN Res(st, <<CondEv>>, "Error")
    ELSE IF p.condKind = "fn" /\ p.condRes[1] = "false"
    THEN Res(st, <<CondEv>> \o Dbg(p, "console.debug",
                  <<"Umbra.workspace.edit(): Conditional check returned false.">>), "")
    ELSE LET called == IF p.condKind = "fn" THEN <<CondEv>> ELSE <<>>
             sel == "[data-page-route=Workspaces] .workspace-footer [data-label=Edit]"
         IN
         IF p.permKind = "array" /\ userHasRole(p.roles)
         THEN Res(st, called \o RoleEvs(p) \o Dbg(p, "console.debug",
                  <<"Umbra.workspace.edit(): User has bypass role, skipping hide.">>), "")
         ELSE LET tr == called \o (IF p.permKind = "array" THEN RoleEvs(p) ELSE <<>>) IN
              IF Select(sel) = {}
              THEN Res(st, tr \o DbgNotFound(p, <<"Edit workspace button not found.">>), "")
              ELSE Res(SetCss(st, sel, CssNoneImportant),
                       tr \o <<CssEv(sel, CssNoneImportant)>>
                          \o Dbg(p, "console.debug",
                                 <<"Umbra.workspace.edit(): Edit workspace button hidden.">>), "")

\* Umbra.workspace.new(props = {})
workspace_new(st, p) ==
    IF p.condKind = "fn" /\ p.condRes[1] = "throw"
    THEN Res(st, <<CondEv>>, "Error")
    ELSE IF p.condKind = "fn" /\ p.condRes[1] = "false"
    THEN Res(st, <<CondEv>> \o Dbg(p, "console.debug",
                  <<"Umbra.workspace.new(): Conditional check returned false.">>), "")
    ELSE LET called == IF p.condKind = "fn" THEN <<CondEv>> ELSE <<>>
             sel == "[data-page-route=Workspaces] .workspace-footer [data-label=New]"
         IN
         IF p.permKind = "array" /\ userHasRole(p.roles)
         THEN Res(st, called \o RoleEvs(p) \o Dbg(p, "console.debug",
                  <<"Umbra.workspace.new(): User has bypass role, skipping hide.">>), "")
         ELSE LET tr == called \o (IF p.permKind = "array" THEN RoleEvs(p) ELSE <<>>) IN
              IF Select(sel) = {}
              THEN Res(st, tr \o DbgNotFound(p, <<"Create workspace button not found.">>), "")
              ELSE Res(SetCss(st, sel, CssNoneImportant),
                       tr \o <<CssEv(sel, CssNoneImportant)>>
                          \o Dbg(p, "console.debug",
                                 <<"Umbra.workspace.new(): Create workspace button hidden.">>), "")

\* Umbra.workspace.sidebar(props = {})
workspace_sidebar(st, p) ==
    IF p.condKind = "fn" /\ p.condRes[1] = "throw"
    THEN Res(st, <<CondEv>>, "Error")
    ELSE IF p.condKind = "fn" /\ p.condRes[1] = "false"
    THEN Res(st, <<CondEv>> \o Dbg(p, "console.debug",
                  <<"Umbra.workspace.sidebar(): Conditional check returned false.">>), "")
    ELSE LET called == IF p.condKind = "fn" THEN <<CondEv>> ELSE <<>>
             sel == "[data-page-route=Workspaces] .layout-side-section"
         IN
         IF p.permKind = "array" /\ userHasRole(p.roles)
         THEN Res(st, called \o RoleEvs(p) \o Dbg(p, "console.debug",
                  <<"Umbra.workspace.sidebar(): User has bypass role, skipping hide.">>), "")
         ELSE LET tr == called \o (IF p.permKind = "array" THEN RoleEvs(p) ELSE <<>>) IN
              IF Select(sel) = {}
              THEN Res(st, tr \o DbgNotFound(p, <<"Workspace sidebar not found.">>), "")
              ELSE Res(SetCss(SetCss(st, sel, CssNoneImportant),
                              "button.sidebar-toggle-btn", CssNoneImportant),
                       tr \o <<CssEv(sel, CssNoneImportant),
                               CssEv("button.sidebar-toggle-btn", CssNoneImportant)>>
                          \o Dbg(p, "console.debug",
                                 <<"Umbra.workspace.sidebar(): Workspace sidebar hidden.">>), "")

\* the early return on a false conditional is missing
list_sidebar_ungated(st, p) ==
    IF Select("[data-page-route^=List] .layout-side-section") = {}
    THEN Res(st, <<>>, "")
    ELSE Res(SetCss(SetCss(st, "[data-page-route^=List] .layout-side-section", CssNoneImportant),
                    "[data-page-route^=List] button.sidebar-toggle-btn", CssNoneImportant),
             <<>>, "")

\* Umbra.list.sidebar(props = {})
list_sidebar(st, p) ==
    IF p.condKind = "fn" /\ p.condRes[1] = "throw"
    THEN Res(st, <<CondEv>>, "Error")
    ELSE IF p.condKind = "fn" /\ p.condRes[1] = "false"
    THEN Res(st, <<CondEv>> \o Dbg(p, "console.debug",
                  <<"Umbra.list.sidebar(): Conditional check returned false.">>), "")
    ELSE LET called == IF p.condKind = "fn" THEN <<CondEv>> ELSE <<>>
             sel == "[data-page-route^=List] .layout-side-section"
         IN
         IF p.permKind = "array" /\ userHasRole(p.roles)
         THEN Res(st, called \o RoleEvs(p) \o Dbg(p, "console.debug",
                  <<"Umbra.list.sidebar(): User has bypass role, skipping hide.">>), "")
         ELSE LET tr == called \o (IF p.permKind = "array" THEN RoleEvs(p) ELSE <<>>) IN
              IF Select(sel) = {}
              THEN Res(st, tr \o DbgNotFound(p, <<"List View sidebar not found.">>), "")
              ELSE Res(SetCss(SetCss(st, sel, CssNoneImportant),
                              "[data-page-route^=List] button.sidebar-toggle-btn", CssNoneImportant),
                       tr \o <<CssEv(sel, CssNoneImportant),
                               CssEv("[data-page-route^=List] button.sidebar-toggle-btn", CssNoneImportant)>>
                          \o Dbg(p, "console.debug",
                                 <<"Umbra.list.sidebar(): List sidebar hidden.">>), "")

----------------------------------------------------------------------------
(* Dynamic field / section dispatcher *)

\* cur_frm.fields_dict[name].df.fieldtype of the current form.
FieldsDict ==
    [n \in {"status", "sec_main", "col_1", "tab_1"} |->
        CASE n = "status" -> "Data"
          [] n = "sec_main" -> "Section Break"
          [] n = "col_1" -> "Column Break"
          [] OTHER -> "Tab Break"]

\* The names a caller asks for: the form's own and one it does not have.
FieldNames == {"status", "sec_main", "col_1", "ghost"}

\* the lookup goes to a form that is not the current one
FieldFound_staleForm(name) == name \in DOMAIN FieldsDict

\* frm && frm.fields_dict && frm.fields_dict[name]
FieldFound(name) == curFrm /\ name \in DOMAIN FieldsDict

BoolText(b) == IF b THEN "true" ELSE "false"

\* the debug flag is not passed on
HideFieldsEv_debugDropped(name, p) ==
    Ev("Utils.hideFields", <<name, "props.conditional", "false">>)

\* Utils.hideFields({ fields: [name], conditional: props.conditional, debug: props.debug })
HideFieldsEv(name, p) == Ev("Utils.hideFields", <<name, "props.conditional", BoolText(p.debug)>>)

\* Umbra.field.<fieldName>(props = {})
field(st, fieldName, p) ==
    IF ~utils
    THEN Res(st, Dbg(p, "console.warn", <<"Umbra.field: Utils module is not available.">>)
                 \o Dbg(p, "show_alert", <<"Utils module is missing. Please include Utils.js.">>), "")
    ELSE IF p.condKind # "fn"
    THEN Res(st, Dbg(p, "console.debug",
                  <<"Umbra.field.", fieldName, "(): 'conditional' must be a function.">>), "")
    ELSE IF p.permKind = "array" /\ userHasRole(p.roles)
    THEN Res(st, RoleEvs(p) \o Dbg(p, "console.debug",
                  <<"Umbra.field.", fieldName, "(): User has bypass role, skipping field hiding.">>), "")
    ELSE LET asked == IF p.permKind = "array" THEN RoleEvs(p) ELSE <<>> IN
         IF FieldFound(fieldName)
         THEN LET fieldType == FieldsDict[fieldName] IN
              IF fieldType \in {"Tab Break", "Section Break", "Column Break"}
              THEN Res(st, asked \o
                        <<Ev("console.warn", <<"Umbra.field.", fieldName, "(): Field type ", fieldType,
                                               " cannot be hidden using Umbra.field.">>),
                          Ev("show_alert", <<"Field ", fieldName, " is a ", fieldType,
                                             " and cannot be hidden using Umbra.field.">>)>>, "")
              ELSE Res(st, asked \o <<HideFieldsEv(fieldName, p)>>
                           \o Dbg(p, "console.debug",
                                  <<"Umbra.field.", fieldName, "(): Field ", fieldName, " hidden.">>), "")
         ELSE Res(st, asked
                      \o Dbg(p, "console.warn",
                             <<"Umbra.field.", fieldName, "(): Field not found in current form.">>)
                      \o Dbg(p, "show_alert",
                             <<"Field ", fieldName, " not found in current form.">>), "")

\* Umbra.section.<sectionName>(props = {})
section(st, sectionName, p) ==
    IF ~utils
    THEN Res(st, Dbg(p, "console.warn", <<"Umbra.section: Utils module is not available.">>)
                 \o Dbg(p, "show_alert", <<"Utils module is missing. Please include Utils.js.">>), "")
    ELSE IF p.condKind # "fn"
    THEN Res(st, Dbg(p, "console.debug",
                  <<"Umbra.section.", sectionName, "(): 'conditional' must be a function.">>), "")
    ELSE IF p.permKind = "array" /\ userHasRole(p.roles)
    THEN Res(st, RoleEvs(p) \o Dbg(p, "console.debug",
                  <<"Umbra.section.", sectionName, "(): User has bypass role, skipping section hiding.">>), "")
    ELSE LET asked == IF p.permKind = "array" THEN RoleEvs(p) ELSE <<>> IN
         IF FieldFound(sectionName)
         THEN LET fieldType == FieldsDict[sectionName] IN
              IF fieldType # "Section Break"
              THEN IF DebugOn(p)
                   \* the alert's message reads `fieldName`, which this scope does
                   \* not bind: building it raises a ReferenceError
                   THEN Res(st, asked \o
                            <<Ev("console.warn", <<"Umbra.section.", sectionName, "(): Field type ",
                                                   fieldType, " is not a Section Break.">>)>>,
                            "ReferenceError")
                   ELSE Res(st, asked, "")
              ELSE Res(st, asked \o <<HideFieldsEv(sectionName, p)>>
                           \o Dbg(p, "console.debug",
                                  <<"Umbra.section.", sectionName, "(): Section ", sectionName, " hidden.">>), "")
         ELSE Res(st, asked
                      \o Dbg(p, "console.warn",
                             <<"Umbra.section.", sectionName, "(): Section not found in current form.">>)
                      \o Dbg(p, "show_alert",
                             <<"Section ", sectionName, " not found in current form.">>), "")

----------------------------------------------------------------------------
(* Timeline *)

\* A result of timeline code: styles, items, trace, exception, and the
\* frappe.call requests it issued.
TRes(st, its, tr, ex, fs) ==
    [style |-> st, items |-> its, trace |-> tr, threw |-> ex, issued |-> fs]

\* timeline's `debug && getEnvironment() === "development"`
TDbg(debug, sink, text) ==
    IF debug /\ getEnvironment = "development" THEN <<Ev(sink, text)>> ELSE <<>>

\* an explicit hideActivitySwitch: false is not honoured
ExtrasHide_always(extras) == TRUE

\* processExtras(): extras is "absent", "true" or "false" (extras.hideActivitySwitch).
ExtrasHide(extras) == IF extras = "absent" THEN TRUE ELSE extras = "true"

\* hideActivitySwitch: false puts the switch back on display
processExtrasStyle_restores(st, extras) ==
    IF ExtrasHide(extras)
    THEN SetCss(st, ".show-all-activity", CssNoneImportant)
    ELSE SetCss(st, ".show-all-activity", CssEmpty)

processExtrasStyle(st, extras) ==
    IF ExtrasHide(extras) THEN SetCss(st, ".show-all-activity", CssNoneImportant) ELSE st

processExtrasTrace(extras, debug) ==
    IF ExtrasHide(extras)
    THEN <<CssEv(".show-all-activity", CssNoneImportant)>>
         \o TDbg(debug, "console.debug",
                 <<"Umbra.timeline: Hiding extra element with class 'show-all-activity'.">>)
    ELSE <<>>

\* $items.hide() / $items.show() on the items whose index is in ix.
ItemsCss(its, ix, text) ==
    [i \in 1..Len(its) |-> IF i \in ix THEN [its[i] EXCEPT !.css = text] ELSE its[i]]

\* $timelineContainer.find(".timeline-item")
FindItems(its) == IF Select(".timeline-items") = {} THEN {} ELSE 1..Len(its)

\* the check for a data-name is missing
RECURSIVE CommItemsFrom_unnamed(_, _)
CommItemsFrom_unnamed(its, i) ==
    IF i > Len(its) THEN <<>>
    ELSE IF its[i].doctype = "Communication"
         THEN <<its[i].name>> \o CommItemsFrom_unnamed(its, i + 1)
         ELSE CommItemsFrom_unnamed(its, i + 1)

\* commItems: the data-name of every Communication item that has one, in order.
RECURSIVE CommItemsFrom(_, _)
CommItemsFrom(its, i) ==
    IF i > Len(its) THEN <<>>
    ELSE IF its[i].doctype = "Communication" /\ its[i].name # ""
         THEN <<its[i].name>> \o CommItemsFrom(its, i + 1)
         ELSE CommItemsFrom(its, i + 1)

CommItems(its) == CommItemsFrom(its, 1)

SeqRange(q) == {q[i] : i \in 1..Len(q)}

\* a later item of a name replaces the earlier ones instead of joining them
CommItemMap_overwrites(its) ==
    [n \in SeqRange(CommItems(its)) |->
        {CHOOSE i \in 1..Len(its) :
            /\ its[i].doctype = "Communication" /\ its[i].name = n
            /\ \A j \in (i + 1)..Len(its) :
                  ~(its[j].doctype = "Communication" /\ its[j].name = n)}]

\* commItemMap: name -> the item elements carrying that name.
CommItemMap(its) ==
    [n \in SeqRange(CommItems(its)) |->
        {i \in 1..Len(its) : its[i].doctype = "Communication" /\ its[i].name = n}]

MapItems(m) == UNION {m[n] : n \in DOMAIN m}

\* recipients.split(",")
RECURSIVE SplitComma(_)
SplitComma(str) ==
    IF \E i \in 1..Len(str) : str[i] = ","
    THEN LET i == CHOOSE k \in 1..Len(str) :
                      str[k] = "," /\ \A j \in 1..(k - 1) : str[j] # ","
         IN <<SubSeq(str, 1, i - 1)>> \o SplitComma(SubSeq(str, i + 1, Len(str)))
    ELSE <<str>>

\* the tokens are not trimmed
Trim_none(str) == str

\* s.trim()
RECURSIVE Trim(_)
Trim(str) ==
    IF Len(str) > 0 /\ str[1] = " " THEN Trim(Tail(str))
    ELSE IF Len(str) > 0 /\ str[Len(str)] = " " THEN Trim(SubSeq(str, 1, Len(str) - 1))
    ELSE str

\* recArr.indexOf(currentUser) !== -1
RecipientsInclude(recipients, user) ==
    \E i \in 1..Len(SplitComma(recipients)) : Trim(SplitComma(recipients)[i]) = user

\* shouldDisplay for a fetched record
shouldDisplay(record) ==
    IF record.sender = SessionUser THEN TRUE
    ELSE RecipientsInclude(record.recipients, SessionUser)

\* commRecords[name]: the last record of r.message carrying the name, if any.
HasRecord(message, name) == \E i \in 1..Len(message) : message[i].name = name

RecordOf(message, name) ==
    message[CHOOSE i \in 1..Len(message) :
                message[i].name = name /\ \A j \in (i + 1)..Len(message) : message[j].name # name]

\* The names of commItemMap the callback shows.
ShownNames(f, message) ==
    {n \in DOMAIN f.map : HasRecord(message, n) /\ shouldDisplay(RecordOf(message, n))}

\* Umbra.timeline(props)
timeline(st, its, p) ==
    LET debug == p.debug
        top == IF p.condKind = "fn" THEN <<CondEv>> ELSE <<>>
        exStyle(s) == processExtrasStyle(s, p.extras)
        exTrace == processExtrasTrace(p.extras, debug)
    IN
    IF p.condKind = "fn" /\ p.condRes[1] = "throw"
    THEN TRes(st, its, top, "Error", <<>>)
    ELSE IF p.condKind = "fn" /\ p.condRes[1] = "false"
    THEN TRes(exStyle(st), its,
              top \o TDbg(debug, "console.debug",
                          <<"Umbra.timeline: Top-level conditional check returned false. Aborting timeline filtering.">>)
                  \o exTrace, "", <<>>)
    ELSE IF p.condKind = "false"
    THEN TRes(exStyle(st), its,
              TDbg(debug, "console.debug",
                   <<"Umbra.timeline: Top-level conditional is false. Aborting timeline filtering.">>)
              \o exTrace, "", <<>>)
    ELSE IF p.filter = "absent"
    THEN IF Select(".new-timeline") # {}
         THEN TRes(exStyle(JqHide(st, ".new-timeline")), its,
                   top \o <<Ev("hide", <<".new-timeline">>)>>
                       \o TDbg(debug, "console.debug",
                               <<"Umbra.timeline: No filter provided. Hiding entire timeline container (.new-timeline).">>)
                       \o exTrace, "", <<>>)
         ELSE TRes(exStyle(st), its,
                   top \o <<Ev("console.warn", <<"Umbra.timeline: Timeline wrapper (.new-timeline) not found.">>)>>
                       \o exTrace, "", <<>>)
    ELSE IF p.filter = "all"
    THEN IF Select(".timeline-items") # {}
         THEN TRes(exStyle(st), ItemsCss(its, FindItems(its), CssEmpty),
                   top \o <<Ev("show", <<".timeline-item">>)>>
                       \o TDbg(debug, "console.debug",
                               <<"Umbra.timeline: Filter set to all. Displaying all timeline items.">>)
                       \o exTrace, "", <<>>)
         ELSE TRes(exStyle(st), its,
                   top \o <<Ev("console.warn", <<"Umbra.timeline: Timeline container (.timeline-items) not found.">>)>>
                       \o exTrace, "", <<>>)
    ELSE IF p.filter = "communications"
    THEN LET nested == IF p.commCond = "absent" THEN <<>> ELSE <<Ev("communications.conditional", <<>>)>> IN
         IF p.commCond = "false"
         THEN TRes(exStyle(st), its,
                   top \o nested
                       \o TDbg(debug, "console.debug",
                               <<"Umbra.timeline: Communications filter conditional check returned false. Aborting timeline filtering.">>)
                       \o exTrace, "", <<>>)
         ELSE IF p.commCond = "throw"
         THEN TRes(exStyle(st), its,
                   top \o nested
                       \o <<Ev("console.warn", <<"Umbra.timeline: Error in communications filter conditional function.">>)>>
                       \o exTrace, "", <<>>)
         ELSE IF Select(".timeline-items") = {}
         THEN TRes(exStyle(st), its,
                   top \o nested
                       \o <<Ev("console.warn", <<"Umbra.timeline: Timeline container (.timeline-items) not found.">>)>>
                       \o exTrace, "", <<>>)
         ELSE LET hidden == ItemsCss(its, FindItems(its), CssJqHidden)
                  commItems == CommItems(its)
                  commItemMap == CommItemMap(its)
                  tr1 == top \o nested \o <<Ev("hide", <<".timeline-item">>)>>
              IN
              IF Len(commItems) = 0
              THEN TRes(exStyle(st), hidden,
                        tr1 \o TDbg(debug, "console.debug",
                                    <<"Umbra.timeline: No communication items to process.">>)
                            \o exTrace, "", <<>>)
              ELSE IF ~p.userOnly
              THEN TRes(exStyle(st), ItemsCss(hidden, MapItems(commItemMap), CssEmpty),
                        tr1 \o <<Ev("show", <<"Communication">>)>> \o exTrace, "", <<>>)
              ELSE TRes(st, hidden,
                        tr1 \o <<Ev("frappe.call", commItems)>>, "",
                        <<[names |-> commItems, map |-> commItemMap,
                           debug |-> debug, extras |-> p.extras]>>)
    ELSE IF Select(".new-timeline") # {}
         THEN TRes(exStyle(JqHide(st, ".new-timeline")), its,
                   top \o <<Ev("hide", <<".new-timeline">>)>>
                       \o TDbg(debug, "console.debug",
                               <<"Umbra.timeline: Unrecognized filter. Hiding entire timeline container (.new-timeline).">>)
                       \o exTrace, "", <<>>)
         ELSE TRes(exStyle(st), its,
                   top \o TDbg(debug, "console.warn",
                               <<"Umbra.timeline: Timeline wrapper (.new-timeline) not found.">>)
                       \o exTrace, "", <<>>)

\* a failed fetch falls back to showing every captured entry
fetchDone_failureShows(st, its, f, resp) ==
    TRes(processExtrasStyle(st, f.extras),
         ItemsCss(its,
                  UNION {f.map[n] : n \in (IF resp.kind = "success"
                                            THEN ShownNames(f, resp.message)
                                            ELSE DOMAIN f.map)},
                  CssEmpty),
         <<Ev("show", <<"shouldDisplay">>)>> \o processExtrasTrace(f.extras, f.debug),
         "", <<>>)

\* the callback looks the entries up by name when it runs, instead of
\* using the elements the call captured
fetchDone_requeries(st, its, f, resp) ==
    TRes(processExtrasStyle(st, f.extras),
         IF resp.kind = "success"
         THEN ItemsCss(its, {i \in 1..Len(its) : its[i].name \in ShownNames(f, resp.message)},
                       CssEmpty)
         ELSE its,
         <<Ev("show", <<"shouldDisplay">>)>> \o processExtrasTrace(f.extras, f.debug),
         "", <<>>)

\* The callback / error functions handed to frappe.call, for the fetch f.
\* resp.kind is "success" (r.message is a list), "nomessage" (r.message is
\* falsy) or "error" (the error channel).
fetchDone(st, its, f, resp) ==
    IF resp.kind = "success"
    THEN TRes(processExtrasStyle(st, f.extras),
              ItemsCss(its, UNION {f.map[n] : n \in ShownNames(f, resp.message)}, CssEmpty),
              <<Ev("show", <<"shouldDisplay">>)>> \o processExtrasTrace(f.extras, f.debug),
              "", <<>>)
    ELSE IF resp.kind = "nomessage"
    THEN TRes(processExtrasStyle(st, f.extras), its,
              TDbg(f.debug, "console.warn", <<"Umbra.timeline: Error fetching communication records.">>)
              \o processExtrasTrace(f.extras, f.debug), "", <<>>)
    ELSE TRes(processExtrasStyle(st, f.extras), its,
              TDbg(f.debug, "console.warn", <<"Umbra.timeline: Error during frappe.call">>)
              \o processExtrasTrace(f.extras, f.debug), "", <<>>)

----------------------------------------------------------------------------
(* Inputs *)

\* props of a call.  given = FALSE is a call without an argument.  condKind
\* is "absent", "fn" (a function; condRes[n] is what its n-th invocation
\* does), "false" (the literal false) or "nonfn" (any other value).
\* permKind is "absent" or "array" (roles is the list).  filter is "absent",
\* "all", "communications" or "other"; commCond is what the nested
\* communications.conditional does ("absent" if there is none).
Props(given, ck, cr, pk, roles, debug, filter, cc, uo, extras) ==
    [given |-> given, condKind |-> ck, condRes |-> cr, permKind |-> pk,
     roles |-> roles, debug |-> debug, filter |-> filter, commCond |-> cc,
     userOnly |-> uo, extras |-> extras]

NoProps ==
    Props(FALSE, "absent", <<"true", "true">>, "absent", <<>>, FALSE,
          "absent", "absent", FALSE, "absent")

RoleLists == {<<>>, <<"Guest">>, <<"Guest", "System Manager">>}

\* (permKind, roles) pairs
Perms == {<<"absent", <<>>>>} \cup {<<"array", r>> : r \in RoleLists}

\* (condKind, condRes) pairs of an operation that invokes the conditional
\* at most once ...
Conds1 ==
    {<<"absent", <<"true", "true">>>>, <<"nonfn", <<"true", "true">>>>}
    \cup {<<"fn", <<o, o>>>> : o \in Outcomes}

\* ... and of one that may invoke it twice.
Conds2 ==
    {<<"absent", <<"true", "true">>>>, <<"nonfn", <<"true", "true">>>>,
     <<"fn", <<"throw", "throw">>>>}
    \cup {<<"fn", <<o1, o2>>>> : o1 \in {"true", "false"}, o2 \in Outcomes}

HideRequests(conds) ==
    {NoProps} \cup
    {Props(TRUE, c[1], c[2], pm[1], pm[2], d, "absent", "absent", FALSE, "absent") :
        c \in conds, pm \in Perms, d \in BOOLEAN}

ActionsProps == HideRequests(Conds2)
HiderProps == HideRequests(Conds1)

\* timeline's props: the top-level conditional may also be a literal boolean.
TimelineConds == Conds1 \cup {<<"false", <<"true", "true">>>>}

Filters ==
    {<<"absent", "absent", FALSE>>, <<"all", "absent", FALSE>>, <<"other", "absent", FALSE>>}
    \cup {<<"communications", cc, uo>> :
             cc \in {"absent", "true", "false", "throw"}, uo \in BOOLEAN}

ExtrasValues == {"absent", "true", "false"}

TimelinePerms == {<<"absent", <<>>>>, <<"array", <<"Guest", "System Manager">>>>}

TimelinePropsOf(perms, debugs, filters) ==
    {NoProps} \cup
    {Props(TRUE, c[1], c[2], pm[1], pm[2], d, f[1], f[2], f[3], e) :
        c \in TimelineConds, pm \in perms, d \in debugs, f \in filters, e \in ExtrasValues}

\* Requests without a filter, with every HideRequest field.
TimelineProps == TimelinePropsOf(TimelinePerms, BOOLEAN, {<<"absent", "absent", FALSE>>})

\* Requests with every filter, without permissions and debug.
TimelineFilterProps == TimelinePropsOf({<<"absent", <<>>>>}, {FALSE}, Filters)

\* Timeline items: their data-doctype and data-name ("" when missing).
ItemKinds ==
    <<[doctype |-> "Communication", name |-> "c1"],
      [doctype |-> "Communication", name |-> "c2"],
      [doctype |-> "Communication", name |-> ""],
      [doctype |-> "Comment", name |-> "c1"]>>

\* The timelines of up to MaxItems items.  The code never looks at the order
\* of the items, so one order per multiset of kinds is enough.
Timelines ==
    UNION {
        {[i \in 1..n |-> [doctype |-> ItemKinds[ix[i]].doctype,
                          name |-> ItemKinds[ix[i]].name, css |-> CssEmpty]] :
            ix \in {f \in [1..n -> 1..Len(ItemKinds)] :
                        \A i \in 1..n, j \in 1..n : i < j => f[i] <= f[j]}} :
        n \in 0..MaxItems}

\* Communication records the server may hold.
Recipients ==
    {<<>>, <<"a">>, <<"b", ",", " ", "a">>, <<"a", "b">>, <<"b">>}

RecordKinds ==
    {[sender |-> SessionUser, recipients |-> <<>>]}
    \cup {[sender |-> OtherUser, recipients |-> r] : r \in Recipients}

NameOrder == <<"c1", "c2">>

\* r.message for a fetch of the names ns: for each name either no record or
\* one of the record kinds.
Messages(ns) ==
    {LET got == SelectSeq(NameOrder, LAMBDA n : n \in DOMAIN g)
     IN [i \in 1..Len(got) |->
            [name |-> got[i], sender |-> g[got[i]].sender,
             recipients |-> g[got[i]].recipients]] :
        g \in UNION {[d -> RecordKinds] : d \in SUBSET ns}}

NoResp == [kind |-> "none", message |-> <<>>]

NoFetch == [names |-> <<>>, map |-> <<>>, debug |-> FALSE, extras |-> "absent"]

----------------------------------------------------------------------------
(* Public API *)

\* The members of the object the module returns as Umbra.
PublicAPI ==
    {"actions", "timeline", "comment", "sidebar", "field", "section", "workspace", "list"}

\* Umbra.<member>(props) for a member the object does not have: the member
\* is undefined, and calling undefined raises a TypeError before any
\* argument is looked at.
callUndefined(st) == Res(st, <<>>, "TypeError")

\* Requests of the batch forms the README shows: a list of names next to the
\* HideRequest fields.
BatchNames == {<<"status", "ghost">>, <<"sec_main", "status">>}

BatchProps ==
    {("names" :> ns) @@
     Props(TRUE, "fn", <<"true", "true">>, pm[1], pm[2], FALSE, "absent", "absent", FALSE, "absent") :
        ns \in BatchNames, pm \in {<<"absent", <<>>>>, <<"array", <<"Guest">>>>}}

----------------------------------------------------------------------------
(* State machine *)

\* (frappe.boot.developer_mode, window.location.hostname)
EnvConfigs ==
    {<<"true", "erp.example.gy">>, <<"false", "localhost">>, <<"undefined", "localhost">>}

LastOf(op, name, p, r, resp, f) ==
    [op |-> op, name |-> name, props |-> p, trace |-> r.trace, threw |-> r.threw,
     resp |-> resp, fetch |-> f]

\* No handler is running and none has run since control went back to the
\* event loop.
Idle ==
    [op |-> "idle", name |-> "", props |-> NoProps, trace |-> <<>>, threw |-> "",
     resp |-> NoResp, fetch |-> NoFetch]

\* A page just rendered, before any Umbra call; the timeline has no entries.
Init ==
    /\ route \in Routes
    /\ curFrm \in BOOLEAN
    /\ utils \in BOOLEAN
    /\ \E c \in EnvConfigs : boot = c[1] /\ hostname = c[2]
    /\ style = [e \in Elements |-> CssEmpty]
    /\ items = <<>>
    /\ pending = <<>>
    /\ last = Idle

\* A form (or list) page with a timeline of up to MaxItems entries.
InitTimeline ==
    /\ route \in {"Form", "List"}
    /\ curFrm = TRUE
    /\ utils = TRUE
    /\ boot = "undefined"
    /\ hostname = "erp.example.gy"
    /\ style = [e \in Elements |-> CssEmpty]
    /\ items \in Timelines
    /\ route # "Form" => items = <<>>
    /\ pending = <<>>
    /\ last = Idle

ambient == <<route, curFrm, utils, boot, hostname>>

\* A call of a hider or of the dispatcher.  JavaScript runs one handler at
\* a time and runs it to its end: a call starts from the event loop being
\* idle, and `last` holds what the handler did until Return.
Commit(op, name, p, r) ==
    /\ last = Idle
    /\ style' = r.style
    /\ last' = LastOf(op, name, p, r, NoResp, NoFetch)
    /\ UNCHANGED <<ambient, items, pending>>

Actions == \E p \in ActionsProps : Commit("actions", "", p, actions(style, p))

Comment == \E p \in HiderProps : Commit("comment", "", p, comment(style, p))

Sidebar == \E p \in HiderProps : Commit("sidebar", "", p, sidebar(style, p))

WorkspaceEdit ==
    \E p \in HiderProps : Commit("workspace.edit", "", p, workspace_edit(style, p))

WorkspaceNew ==
    \E p \in HiderProps : Commit("workspace.new", "", p, workspace_new(style, p))

WorkspaceSidebar ==
    \E p \in HiderProps : Commit("workspace.sidebar", "", p, workspace_sidebar(style, p))

ListSidebar ==
    \E p \in HiderProps : Commit("list.sidebar", "", p, list_sidebar(style, p))

Field ==
    \E n \in FieldNames, p \in HiderProps : Commit("field", n, p, field(style, n, p))

Section ==
    \E n \in FieldNames, p \in HiderProps : Commit("section", n, p, section(style, n, p))

\* Umbra.fields({ fields: [...] }) and Umbra.sections({ sections: [...] }),
\* as a page following the README calls them.
Fields ==
    /\ "fields" \notin PublicAPI
    /\ \E p \in BatchProps : Commit("fields", "", p, callUndefined(style))

Sections ==
    /\ "sections" \notin PublicAPI
    /\ \E p \in BatchProps : Commit("sections", "", p, callUndefined(style))

\* A call of Umbra.timeline; a fetch it issues stays in flight.
TimelineCall(P) ==
    \E p \in P :
        LET r == timeline(style, items, p) IN
        /\ last = Idle
        /\ Len(pending) + Len(r.issued) <= MaxPending
        /\ style' = r.style
        /\ items' = r.items
        /\ pending' = pending \o r.issued
        /\ last' = LastOf("timeline", "", p, r, NoResp, NoFetch)
        /\ UNCHANGED ambient

Timeline == TimelineCall(TimelineProps)

TimelineFilter == TimelineCall(TimelineFilterProps)

RemoveAt(q, i) == SubSeq(q, 1, i - 1) \o SubSeq(q, i + 1, Len(q))

\* frappe.call completes the fetch in flight at position i with resp.
Complete(i, resp) ==
    LET r == fetchDone(style, items, pending[i], resp) IN
    /\ last = Idle
    /\ style' = r.style
    /\ items' = r.items
    /\ pending' = RemoveAt(pending, i)
    /\ last' = LastOf("fetchDone", "", NoProps, r, resp, pending[i])
    /\ UNCHANGED ambient

FetchSuccess ==
    \E i \in 1..Len(pending) :
        \E m \in Messages(DOMAIN pending[i].map) :
            Complete(i, [kind |-> "success", message |-> m])

FetchFailure ==
    \E i \in 1..Len(pending) :
        \E k \in {"nomessage", "error"} :
            Complete(i, [kind |-> k, message |-> <<>>])

\* The handler has returned (or thrown) and control is back in the event loop.
Return ==
    /\ last # Idle
    /\ last' = Idle
    /\ UNCHANGED <<ambient, style, items, pending>>

Next ==
    \/ Actions
    \/ Comment
    \/ Sidebar
    \/ WorkspaceEdit
    \/ WorkspaceNew
    \/ WorkspaceSidebar
    \/ ListSidebar
    \/ Field
    \/ Section
    \/ Fields
    \/ Sections
    \/ Timeline
    \/ Return

Spec == Init /\ [][Next]_vars

NextTimeline ==
    \/ TimelineFilter
    \/ FetchSuccess
    \/ FetchFailure
    \/ Return

SpecTimeline == InitTimeline /\ [][NextTimeline]_vars

\* A form whose timeline gains entries while Umbra is in use: the host page
\* renders a new entry, visible.  Entries are kept in order of creation, so
\* an index names the same element for good.
InitGrowing == InitTimeline /\ route = "Form"

AddItem ==
    /\ last = Idle
    /\ Len(items) < MaxItems
    /\ \E k \in 1..Len(ItemKinds) :
          items' = Append(items, [doctype |-> ItemKinds[k].doctype,
                                  name |-> ItemKinds[k].name, css |-> CssEmpty])
    /\ UNCHANGED <<ambient, style, pending, last>>

\* The requests made on the growing timeline: userOnly fetches, and the
\* calls that run between a fetch and its completion.
GrowingProps ==
    TimelinePropsOf({<<"absent", <<>>>>}, {FALSE},
                    {<<"communications", "absent", TRUE>>, <<"all", "absent", FALSE>>,
                     <<"absent", "absent", FALSE>>})

TimelineGrowing == TimelineCall(GrowingProps)

NextGrowing ==
    \/ TimelineGrowing
    \/ AddItem
    \/ FetchSuccess
    \/ FetchFailure
    \/ Return

SpecGrowing == InitGrowing /\ [][NextGrowing]_vars

----------------------------------------------------------------------------
(* Vocabulary of the properties *)

\* The element exists on the page and its inline style hides it.
Hidden(e) == HiddenCss(style[e])

ItemHidden(i) == HiddenCss(items[i].css)

\* The user holds one of the listed roles.
HoldsListed(p) ==
    p.permKind = "array" /\ \E i \in 1..Len(p.roles) : p.roles[i] \in SessionRoles

\* What the last handler sent to the console or showed as a notice.
Emitted == SelectSeq(last.trace, LAMBDA ev : ev.sink \in {"console.debug", "console.warn", "show_alert"})

ConsoleLines == SelectSeq(last.trace, LAMBDA ev : ev.sink \in {"console.debug", "console.warn"})

Notices == SelectSeq(last.trace, LAMBDA ev : ev.sink = "show_alert")

DelegateCalls == SelectSeq(last.trace, LAMBDA ev : ev.sink = "Utils.hideFields")

\* The text of an event names n and no other field name.
NamesExactly(ev, n) ==
    /\ \E k \in 1..Len(ev.text) : ev.text[k] = n
    /\ \A k \in 1..Len(ev.text) : ev.text[k] \in DOMAIN FieldsDict \cup FieldNames => ev.text[k] = n

RegionHiders ==
    {"actions", "comment", "sidebar", "workspace.edit", "workspace.new",
     "workspace.sidebar", "list.sidebar"}

\* The elements of the region an operation is there to hide.
Target(op) ==
    PageElements(route) \cap
    (CASE op = "actions" -> {"actionsBtnGroup"}
       [] op = "comment" -> {"commentBox"}
       [] op = "sidebar" -> {"formSidebar", "formToggleBtn"}
       [] op = "workspace.edit" -> {"wsEditBtn"}
       [] op = "workspace.new" -> {"wsNewBtn"}
       [] op = "workspace.sidebar" -> {"wsSidebar", "wsToggleBtn"}
       [] op = "list.sidebar" -> {"listSidebar", "listToggleBtn"}
       [] op = "timeline" -> {"newTimeline"}
       [] OTHER -> {})

\* A call with neither a conditional nor permissions (a call without props
\* included); for timeline, also without a filter.
BareCall ==
    /\ last.op \in RegionHiders \cup {"timeline"}
    /\ last.props.condKind = "absent"
    /\ last.props.permKind = "absent"
    /\ last.props.filter = "absent"

NeedsForm(op) == op \in {"actions", "comment", "sidebar"}

----------------------------------------------------------------------------
(* C1 *)

\* C1 as stated: a call with conditional and permissions omitted always ends
\* with the targeted region hidden.
C1_AlwaysHidden == BareCall => \A e \in Target(last.op) : Hidden(e)

\* C1, amended: a call with conditional and permissions omitted ends with
\* every existing element of the targeted region hidden, provided
\* window.cur_frm is available when the operation is actions, comment or
\* sidebar.
C1_HiddenWhenFormAvailable ==
    (BareCall /\ (NeedsForm(last.op) => curFrm)) => \A e \in Target(last.op) : Hidden(e)

C1_Witness ==
    /\ BareCall
    /\ last.op = "actions"
    /\ ~last.props.given
    /\ curFrm
    /\ Target(last.op) # {}
    /\ \A e \in Target(last.op) : Hidden(e)

----------------------------------------------------------------------------
(* C2 *)

BypassOps == RegionHiders \cup {"field", "section"}

\* C2: when the user holds a listed role, the call changes no element's
\* display and does not call the field-hiding delegate, whatever the
\* conditional is or does.
C2_BypassNoMutation ==
    [][(last'.op \in BypassOps /\ HoldsListed(last'.props))
        => (/\ style' = style
            /\ items' = items
            /\ \A k \in 1..Len(last'.trace) : last'.trace[k].sink # "Utils.hideFields")]_vars

C2_Witness ==
    /\ last.op = "comment"
    /\ HoldsListed(last.props)
    /\ last.props.condKind = "fn" /\ last.props.condRes[1] = "true"
    /\ curFrm
    /\ "commentBox" \in Target("comment")
    /\ ~Hidden("commentBox")

----------------------------------------------------------------------------
(* C3 *)

\* C3: for comment, sidebar, workspace.edit/new/sidebar and list.sidebar, a
\* call whose conditional returns false leaves the display of every element
\* as it was.
C3_FalseConditionalNoMutation ==
    [][(/\ last'.op \in RegionHiders \ {"actions"}
        /\ last'.props.condKind = "fn"
        /\ last'.props.condRes[1] = "false")
        => (style' = style /\ items' = items)]_vars

C3_Witness ==
    /\ last.op = "list.sidebar"
    /\ last.props.condKind = "fn" /\ last.props.condRes[1] = "false"
    /\ ~HoldsListed(last.props)
    /\ "listSidebar" \in Target("list.sidebar")
    /\ ~Hidden("listSidebar")

----------------------------------------------------------------------------
(* C4 *)

ActionsVisible == \A e \in Target("actions") : ~Hidden(e)

ActionsHidden == \A e \in Target("actions") : Hidden(e)

\* C4 as stated: without a conditional the actions region is always hidden,
\* and with a conditional function its visibility is NOT(conditional result).
C4_Toggle ==
    last.op = "actions" =>
        /\ last.props.condKind = "absent" => ActionsHidden
        /\ (last.props.condKind = "fn" /\ last.props.condRes[1] = "true") => ActionsHidden
        /\ (last.props.condKind = "fn" /\ last.props.condRes[1] = "false") => ActionsVisible

\* C4, amended: when window.cur_frm is available and the user holds no
\* listed role, the actions region is hidden if there is no conditional, and
\* otherwise is hidden iff the first invocation of the conditional returned
\* true (shown, with display block, when it returned false).
C4_ToggleWhenGatePasses ==
    (last.op = "actions" /\ curFrm /\ ~HoldsListed(last.props)) =>
        /\ last.props.condKind = "absent" => ActionsHidden
        /\ (last.props.condKind = "fn" /\ last.props.condRes[1] = "true") => ActionsHidden
        /\ (last.props.condKind = "fn" /\ last.props.condRes[1] = "false") =>
                \A e \in Target("actions") : style[e] = CssBlock

C4_Witness ==
    /\ last.op = "actions" /\ curFrm /\ ~HoldsListed(last.props)
    /\ last.props.condKind = "fn" /\ last.props.condRes[1] = "false"
    /\ Target("actions") # {}
    /\ \A e \in Target("actions") : style[e] = CssBlock

----------------------------------------------------------------------------
(* C5 *)

\* The last step ended a timeline call: the call returned without leaving a
\* fetch in flight, or the fetch of a call completed.
TimelineExit ==
    \/ last.op = "timeline" /\ \A k \in 1..Len(last.trace) : last.trace[k].sink # "frappe.call"
    \/ last.op = "fetchDone"

ExtrasOfExit == IF last.op = "fetchDone" THEN last.fetch.extras ELSE last.props.extras

\* C5: on every exit path of every timeline call the activity-switch control
\* ends hidden, unless extras.hideActivitySwitch is false.
C5_ExtrasOnEveryExit ==
    (TimelineExit /\ ExtrasOfExit # "false") => \A e \in Select(".show-all-activity") : Hidden(e)

----------------------------------------------------------------------------
(* C6 *)

\* The token str[a..b] is the user's id with blanks around it.
TokenIsUser(str, a, b, user) ==
    \E l \in 0..(b - a + 1) :
        LET r == (b - a + 1) - l - Len(user) IN
        /\ r >= 0
        /\ \A k \in a..(a + l - 1) : str[k] = " "
        /\ \A k \in 1..Len(user) : str[a + l + k - 1] = user[k]
        /\ \A k \in (a + l + Len(user))..b : str[k] = " "

\* The comma-delimited list str has the user among its trimmed entries.
ListsUser(str, user) ==
    \E a \in 1..(Len(str) + 1), b \in 0..Len(str) :
        /\ a <= b + 1
        /\ a = 1 \/ str[a - 1] = ","
        /\ b = Len(str) \/ str[b + 1] = ","
        /\ \A k \in a..b : str[k] # ","
        /\ TokenIsUser(str, a, b, user)

\* The item is a Communication whose fetched record is from or to the user.
ForCurrentUser(it, message) ==
    /\ it.doctype = "Communication"
    /\ \E k \in 1..Len(message) :
          /\ message[k].name = it.name
          /\ \/ message[k].sender = SessionUser
             \/ ListsUser(message[k].recipients, SessionUser)

\* The request reaches the communications branch with userOnly set.
UserOnlyCall ==
    /\ last.op = "timeline"
    /\ last.props.filter = "communications"
    /\ last.props.userOnly
    /\ last.props.commCond \in {"absent", "true"}
    /\ last.props.condKind \in {"absent", "nonfn"}
       \/ (last.props.condKind = "fn" /\ last.props.condRes[1] = "true")

\* C6: a userOnly call returns with every timeline item hidden; when its
\* fetch then succeeds, the visible items are exactly the Communication items
\* whose fetched record has the user as sender or among its recipients.
C6_UserOnly ==
    /\ [](UserOnlyCall => \A i \in 1..Len(items) : ItemHidden(i))
    /\ [][(/\ last'.op = "fetchDone"
           /\ last'.resp.kind = "success"
           /\ \A i \in 1..Len(items) : ItemHidden(i))
           => \A i \in 1..Len(items') :
                 ~HiddenCss(items'[i].css) <=> ForCurrentUser(items[i], last'.resp.message)]_vars

C6_Witness ==
    /\ last.op = "fetchDone"
    /\ last.resp.kind = "success"
    /\ \E i \in 1..Len(items) :
          /\ ~ItemHidden(i)
          /\ \E k \in 1..Len(last.resp.message) :
                /\ last.resp.message[k].name = items[i].name
                /\ last.resp.message[k].recipients = <<"b", ",", " ", "a">>
    /\ \E i \in 1..Len(items) :
          /\ ItemHidden(i)
          /\ items[i].doctype = "Communication"
          /\ \E k \in 1..Len(last.resp.message) :
                /\ last.resp.message[k].name = items[i].name
                /\ last.resp.message[k].recipients = <<"a", "b">>

----------------------------------------------------------------------------
(* C7 *)

\* C7: no public operation throws to its caller.
C7_NeverThrows == last.threw = ""

----------------------------------------------------------------------------
(* C8 *)

\* C8: a diagnostic message reaches the console only when debug is true and
\* the environment is development.
C8_DebugGated ==
    last.op # "fetchDone" =>
        \A k \in 1..Len(ConsoleLines) : last.props.debug /\ getEnvironment = "development"

----------------------------------------------------------------------------
(* C9 *)

NotInForm(n) == ~curFrm \/ n \notin DOMAIN FieldsDict

\* field.<name> or section.<name> gets as far as looking the name up, and
\* the form does not have it.
LookupMisses ==
    /\ last.op \in {"field", "section"}
    /\ utils
    /\ last.props.condKind = "fn"
    /\ ~HoldsListed(last.props)
    /\ NotInForm(last.name)

----------------------------------------------------------------------------
(* C10 *)

\* C10: section.<name> on a plain field does not call the delegate and shows
\* a notice that names the field's actual kind.
C10_NoticeNamesKind ==
    (/\ last.op = "section"
     /\ utils
     /\ last.props.condKind = "fn"
     /\ ~HoldsListed(last.props)
     /\ ~NotInForm(last.name)
     /\ FieldsDict[last.name] = "Data")
    => /\ DelegateCalls = <<>>
       /\ \E k \in 1..Len(Notices) :
             \E j \in 1..Len(Notices[k].text) : Notices[k].text[j] = "Data"

----------------------------------------------------------------------------
(* C11 *)

\* The handler of a Named Region Hider, applied to the styles st.
Apply(op, st, p) ==
    CASE op = "actions" -> actions(st, p)
      [] op = "comment" -> comment(st, p)
      [] op = "sidebar" -> sidebar(st, p)
      [] op = "workspace.edit" -> workspace_edit(st, p)
      [] op = "workspace.new" -> workspace_new(st, p)
      [] op = "workspace.sidebar" -> workspace_sidebar(st, p)
      [] OTHER -> list_sidebar(st, p)

RequestsOf(op) == IF op = "actions" THEN ActionsProps ELSE HiderProps

\* C11: from every state in which a call can start, and for every Named
\* Region Hider and every HideRequest, the styles after two calls in a row
\* with the same request are the styles after one call.
C11_Idempotent ==
    last = Idle =>
        \A op \in RegionHiders :
            \A p \in RequestsOf(op) :
                Apply(op, Apply(op, style, p).style, p).style = Apply(op, style, p).style

\* A call of a hider has just hidden a region that was visible when the page
\* was rendered, and the same call once more leaves every style as it is.
C11_Witness ==
    /\ last.op = "workspace.sidebar"
    /\ ~HoldsListed(last.props)
    /\ last.props.condKind = "fn" /\ last.props.condRes[1] = "true"
    /\ Target(last.op) # {}
    /\ \A e \in Target(last.op) : style[e] = CssNoneImportant
    /\ Apply(last.op, style, last.props).style = style

----------------------------------------------------------------------------
(* C12 *)

\* The timeline entries are rendered inside the .new-timeline wrapper
\* ("the entire timeline is hidden by hiding the wrapper element"): an entry
\* is visible when neither its own style nor the wrapper's hides it.
ItemVisible(i) == ~ItemHidden(i) /\ \A e \in Select(".new-timeline") : ~Hidden(e)

AllModeCall ==
    /\ last.op = "timeline"
    /\ last.props.filter = "all"
    /\ last.props.condKind = "absent"
    /\ last.props.extras = "absent"

\* C12: after timeline({ filter: { all: true } }) without a conditional,
\* whatever was called before, every timeline entry is visible and the
\* activity-switch control is hidden.
C12_AllShowsEverything ==
    AllModeCall =>
        /\ \A i \in 1..Len(items) : ItemVisible(i)
        /\ \A e \in Select(".show-all-activity") : Hidden(e)

\* What the call does establish: no entry is hidden by its own style.
C12_AllShowsEachItem ==
    AllModeCall =>
        /\ \A i \in 1..Len(items) : ~ItemHidden(i)
        /\ \A e \in Select(".show-all-activity") : Hidden(e)

----------------------------------------------------------------------------
(* C13 *)

\* C13: a timeline call whose top-level conditional is the literal false or
\* a function returning false changes no item, no wrapper and issues no
\* fetch, whatever the filter; with extras.hideActivitySwitch = false it
\* changes nothing at all.
C13_FalseTopLevelNoMutation ==
    [][(/\ last'.op = "timeline"
        /\ \/ last'.props.condKind = "false"
           \/ last'.props.condKind = "fn" /\ last'.props.condRes[1] = "false")
        => (/\ items' = items
            /\ pending' = pending
            /\ \A e \in Elements \ {"showAllActivity"} : style'[e] = style[e]
            /\ \A k \in 1..Len(last'.trace) :
                  last'.trace[k].sink \notin {"frappe.call", "hide", "show"}
            /\ last'.props.extras = "false" => style' = style)]_vars

\* The literal false stops a userOnly communications request on a form
\* whose entries and activity switch are all visible.
C13_Witness ==
    /\ last.op = "timeline"
    /\ last.props.condKind = "false"
    /\ last.props.filter = "communications"
    /\ last.props.userOnly
    /\ last.props.extras = "false"
    /\ Len(CommItems(items)) > 0
    /\ \A i \in 1..Len(items) : ItemVisible(i)
    /\ Select(".show-all-activity") # {}
    /\ \A e \in Select(".show-all-activity") : ~Hidden(e)
    /\ pending = <<>>

----------------------------------------------------------------------------
(* C14 *)

\* C14: a timeline call with a permissions list naming a role the user holds
\* changes no item, wrapper or activity-switch style and issues no fetch.
C14_TimelineBypass ==
    [][(last'.op = "timeline" /\ HoldsListed(last'.props))
        => (style' = style /\ items' = items /\ pending' = pending)]_vars

----------------------------------------------------------------------------
(* C15 *)

\* The last call invoked a caller-supplied conditional and that invocation
\* threw.
ConditionalThrew ==
    \/ /\ last.op \in RegionHiders \cup {"timeline"}
       /\ last.props.condKind = "fn"
       /\ \E k \in 1..Len(last.trace) :
             /\ last.trace[k].sink = "conditional"
             /\ last.props.condRes[Cardinality({j \in 1..k : last.trace[j].sink = "conditional"})]
                    = "throw"
    \/ /\ last.op = "timeline"
       /\ last.props.commCond = "throw"
       /\ \E k \in 1..Len(last.trace) : last.trace[k].sink = "communications.conditional"

\* C15: when the caller's conditional throws, the exception does not reach
\* the caller and the call hides nothing.
C15_ConditionalExceptionCaught ==
    ConditionalThrew =>
        /\ last.threw = ""
        /\ \A k \in 1..Len(last.trace) :
              /\ last.trace[k].sink # "hide"
              /\ last.trace[k].sink = "css" =>
                    last.trace[k].text[1] = ".show-all-activity"

----------------------------------------------------------------------------
(* C16 *)

\* C16: a call whose conditional is provided and is not a function changes
\* no style, does not call the delegate and does not throw.
C16_FailsClosed ==
    [][(last'.op \in BypassOps /\ last'.props.condKind = "nonfn")
        => (/\ style' = style
            /\ last'.threw = ""
            /\ \A k \in 1..Len(last'.trace) : last'.trace[k].sink # "Utils.hideFields")]_vars

----------------------------------------------------------------------------
(* C17 *)

\* C17: every style a Named Region Hider writes in order to hide sets
\* display none with !important priority.
C17_ForcedOverride ==
    last.op \in RegionHiders =>
        \A k \in 1..Len(last.trace) :
            (last.trace[k].sink = "css" /\ HiddenCss(last.trace[k].text[2]))
                => last.trace[k].text[2] = CssNoneImportant

----------------------------------------------------------------------------
(* C18 *)

BreakKinds == {"Tab Break", "Section Break", "Column Break"}

\* Every check of the dispatcher passes for the last call.
AllChecksPass ==
    /\ utils
    /\ last.props.condKind = "fn"
    /\ ~HoldsListed(last.props)
    /\ ~NotInForm(last.name)
    /\ IF last.op = "field"
       THEN FieldsDict[last.name] \notin BreakKinds
       ELSE FieldsDict[last.name] = "Section Break"

----------------------------------------------------------------------------
(* C19 *)

\* The name passes the per-name checks of the form the call belongs to.
ValidIn(op, n) ==
    /\ ~NotInForm(n)
    /\ IF op = "fields"
       THEN FieldsDict[n] \notin BreakKinds
       ELSE FieldsDict[n] = "Section Break"

\* C19: a call of Umbra.fields or Umbra.sections does not throw, and hands
\* every valid name of its list to the field-hiding delegate, whether or not
\* the list also holds a missing or wrong-kind name.
C19_BatchHidesEachValidName ==
    (/\ last.op \in {"fields", "sections"}
     /\ utils
     /\ ~HoldsListed(last.props))
    => /\ last.threw = ""
       /\ \A i \in 1..Len(last.props.names) :
             ValidIn(last.op, last.props.names[i]) =>
                \E k \in 1..Len(DelegateCalls) :
                    DelegateCalls[k].text[1] = last.props.names[i]

----------------------------------------------------------------------------
(* C20 *)

\* What the call whose fetch completed last would have left behind had it
\* run alone: every entry hidden by $items.hide(), then the Communication
\* entries of the user shown if the fetch succeeded.
ShownByLastAlone(i) ==
    /\ last.resp.kind = "success"
    /\ items[i].name \in DOMAIN last.fetch.map
    /\ ForCurrentUser(items[i], last.resp.message)

\* C20: once every fetch in flight has completed, the visibility of every
\* timeline entry is the one the last-completing call alone would have
\* produced, also when another timeline call ran while its fetch was in
\* flight.
C20_LastCompletionDecides ==
    (last.op = "fetchDone" /\ pending = <<>>) =>
        \A i \in 1..Len(items) : ~ItemHidden(i) <=> ShownByLastAlone(i)

----------------------------------------------------------------------------
(* C21 *)

\* The last call was a userOnly call that left its fetch in flight.
FetchIssued ==
    /\ last.op = "timeline"
    /\ \E k \in 1..Len(last.trace) : last.trace[k].sink = "frappe.call"

\* C21: a userOnly call that issues its fetch returns, without throwing,
\* with every timeline item hidden; a fetch that fails (error channel, or a
\* response without a message) changes no item, shows nothing and throws
\* nothing, so the items stay hidden for as long as the fetch is in flight
\* and after it has failed.
C21_FailedFetchLeavesHidden ==
    /\ [](FetchIssued =>
            /\ last.threw = ""
            /\ \A i \in 1..Len(items) : ItemHidden(i))
    /\ [][(last'.op = "fetchDone" /\ last'.resp.kind \in {"nomessage", "error"})
            => (/\ items' = items
                /\ last'.threw = ""
                /\ \A k \in 1..Len(last'.trace) : last'.trace[k].sink # "show")]_vars

\* The fetch of a call on a timeline with a named Communication entry has
\* failed on the error channel, and every entry is still hidden.
C21_Witness ==
    /\ last.op = "fetchDone"
    /\ last.resp.kind = "error"
    /\ pending = <<>>
    /\ Len(CommItems(items)) > 0
    /\ \A i \in 1..Len(items) : ItemHidden(i)

----------------------------------------------------------------------------
(* C22 *)

\* The next state is the result of field.<name> or section.<name> called
\* while Utils is not defined.
UtilsMissingCall == last'.op \in {"field", "section"} /\ ~utils

\* The call stopped before every other check: the conditional was not
\* invoked, no role was asked about, the delegate was not called and no
\* style changed.
StoppedAtUtilsCheck ==
    /\ style' = style
    /\ last'.threw = ""
    /\ \A k \in 1..Len(last'.trace) :
          last'.trace[k].sink \in {"console.debug", "console.warn", "show_alert"}

\* C22 as stated: without Utils the call stops before any other check and
\* emits a log line and a user-facing notice.
C22_FailFastWithNotice ==
    [][UtilsMissingCall =>
        (/\ StoppedAtUtilsCheck
         /\ \E k \in 1..Len(last'.trace) : last'.trace[k].sink = "console.warn"
         /\ \E k \in 1..Len(last'.trace) : last'.trace[k].sink = "show_alert")]_vars

\* C22, amended: without Utils the call stops before any other check; when
\* debug is true and the environment is development it emits one console
\* warning and one notice, and otherwise it emits nothing.
C22_FailFastNoticeUnderDebug ==
    [][UtilsMissingCall =>
        (/\ StoppedAtUtilsCheck
         /\ IF last'.props.debug /\ getEnvironment = "development"
            THEN /\ Len(last'.trace) = 2
                 /\ last'.trace[1].sink = "console.warn"
                 /\ last'.trace[2].sink = "show_alert"
            ELSE last'.trace = <<>>)]_vars

\* field.<name> called without Utils, with a function conditional and a
\* held bypass role, under debug in development: the warning and the notice
\* are all the call did.
C22_Witness ==
    /\ last.op = "field"
    /\ ~utils
    /\ last.props.condKind = "fn"
    /\ HoldsListed(last.props)
    /\ last.props.debug /\ getEnvironment = "development"
    /\ Len(ConsoleLines) = 1
    /\ Len(Notices) = 1
    /\ Len(last.trace) = 2

----------------------------------------------------------------------------
(* C23 *)

\* C23: in a production environment no operation writes to the console, on
\* any path.
C23_ProductionSilent ==
    (getEnvironment = "production" /\ last.op # "idle") => ConsoleLines = <<>>

----------------------------------------------------------------------------
(* C24 *)

\* The top-level conditional of the last call let the call proceed.
TopLevelPasses ==
    \/ last.props.condKind = "absent"
    \/ last.props.condKind = "fn" /\ last.props.condRes[1] = "true"

\* A communications request without userOnly whose conditionals pass, on a
\* page that has the timeline container.
CommunicationsCall ==
    /\ last.op = "timeline"
    /\ last.props.filter = "communications"
    /\ ~last.props.userOnly
    /\ last.props.commCond \in {"absent", "true"}
    /\ TopLevelPasses
    /\ Select(".timeline-items") # {}

\* C24: after such a call a timeline item is shown if and only if its
\* data-doctype is Communication, for every set of timeline items.
C24_ShownIffCommunication ==
    CommunicationsCall =>
        \A i \in 1..Len(items) : ~ItemHidden(i) <=> items[i].doctype = "Communication"

\* C24, amended: after such a call the own display of a timeline item is
\* shown if and only if the item is a Communication that carries a
\* data-name; every other item is hidden.
C24_ShownIffNamedCommunication ==
    CommunicationsCall =>
        \A i \in 1..Len(items) :
            ~ItemHidden(i) <=> (items[i].doctype = "Communication" /\ items[i].name # "")

\* A named Communication is shown next to a Communication without a
\* data-name, which the call left hidden.
C24_Witness ==
    /\ CommunicationsCall
    /\ \E i \in 1..Len(items) :
          items[i].doctype = "Communication" /\ items[i].name # "" /\ ~ItemHidden(i)
    /\ \E i \in 1..Len(items) :
          items[i].doctype = "Communication" /\ items[i].name = "" /\ ItemHidden(i)

----------------------------------------------------------------------------
(* C25 *)

\* C25: in every operation that takes a conditional and permissions, a role
\* is asked about only after the conditional has been evaluated.
C25_ConditionalBeforeRoles ==
    (/\ last.op \in BypassOps
     /\ last.props.condKind = "fn"
     /\ last.props.permKind = "array")
    => \A k \in 1..Len(last.trace) :
          last.trace[k].sink = "has_role" =>
              \E j \in 1..(k - 1) : last.trace[j].sink = "conditional"

\* What holds of the hiders other than actions: the conditional is invoked
\* before any role is asked about.
C25_ConditionalBeforeRolesExceptActions ==
    (/\ last.op \in RegionHiders \ {"actions"}
     /\ last.props.condKind = "fn"
     /\ last.props.permKind = "array")
    => \A k \in 1..Len(last.trace) :
          last.trace[k].sink = "has_role" =>
              \E j \in 1..(k - 1) : last.trace[j].sink = "conditional"

----------------------------------------------------------------------------
(* C26 *)

\* The elements of the regions without toggle semantics.
AbsorbingElements ==
    {"commentBox", "formSidebar", "formToggleBtn", "wsEditBtn", "wsNewBtn",
     "wsSidebar", "wsToggleBtn", "listSidebar", "listToggleBtn", "showAllActivity"}

\* C26: once the comment box, a sidebar, a sidebar toggle button, a
\* workspace button or the activity switch is hidden, no call of any
\* operation, with any props, makes it visible again.
C26_HiddenIsAbsorbing ==
    [][\A e \in AbsorbingElements : HiddenCss(style[e]) => HiddenCss(style'[e])]_vars

\* A later call whose conditional returns false has left the comment box,
\* hidden by an earlier call, hidden; the activity switch is hidden too.
C26_Witness ==
    /\ last.op = "comment"
    /\ curFrm
    /\ last.props.condKind = "fn" /\ last.props.condRes[1] = "false"
    /\ "commentBox" \in PageElements(route)
    /\ Hidden("commentBox")
    /\ Hidden("showAllActivity")

----------------------------------------------------------------------------
(* C27 *)

\* C27: once the .new-timeline wrapper is hidden, no timeline call and no
\* fetch completion shows it again, whatever the filter.
C27_WrapperStaysHidden ==
    [][HiddenCss(style["newTimeline"]) => HiddenCss(style'["newTimeline"])]_vars

\* A filter.all call on a form with entries, after an earlier call hid the
\* wrapper: the entries' own styles are shown and the wrapper is hidden.
C27_Witness ==
    /\ last.op = "timeline"
    /\ last.props.filter = "all"
    /\ TopLevelPasses
    /\ Len(items) > 0
    /\ \A i \in 1..Len(items) : ~ItemHidden(i)
    /\ "newTimeline" \in PageElements(route)
    /\ Hidden("newTimeline")

----------------------------------------------------------------------------
(* C28 *)

\* The item elements the call of the fetch f captured in its commItemMap.
Captured(f) == UNION {f.map[n] : n \in DOMAIN f.map}

\* C28: the completion of a userOnly fetch, whenever it runs, adds and
\* removes no item, leaves the wrapper and the container as they are, hides
\* no item, and changes only items that are named Communication items
\* captured by its own call, which it shows.
C28_CallbackOnlyShowsCaptured ==
    [][last'.op = "fetchDone" =>
        (/\ Len(items') = Len(items)
         /\ style'["newTimeline"] = style["newTimeline"]
         /\ style'["timelineItems"] = style["timelineItems"]
         /\ \A i \in 1..Len(items) :
               /\ HiddenCss(items'[i].css) => HiddenCss(items[i].css)
               /\ items'[i].css # items[i].css =>
                     /\ items[i].doctype = "Communication"
                     /\ items[i].name # ""
                     /\ i \in Captured(last'.fetch))]_vars

\* A fetch has completed after a later call hid an entry that was added
\* after the fetch's own call: the callback showed a captured entry and left
\* the added one hidden, although it is a Communication of the same name
\* whose record is for the user.
C28_Witness ==
    /\ last.op = "fetchDone"
    /\ last.resp.kind = "success"
    /\ \E j \in Captured(last.fetch) : ~ItemHidden(j)
    /\ \E i \in (1..Len(items)) \ Captured(last.fetch) :
          /\ items[i].doctype = "Communication"
          /\ items[i].name \in DOMAIN last.fetch.map
          /\ ForCurrentUser(items[i], last.resp.message)
          /\ ItemHidden(i)

----------------------------------------------------------------------------
(* C29 *)

\* The nested communications conditional let the call proceed.
NestedPasses == last.props.commCond \in {"absent", "true"}

\* Everything the fetch depends on: both conditionals pass (a top-level
\* conditional that is neither a function nor the literal false is not
\* evaluated), the filter is a communications filter with userOnly, the
\* container exists and holds a Communication item with a data-name.
FetchDue ==
    /\ TopLevelPasses \/ last.props.condKind = "nonfn"
    /\ last.props.filter = "communications"
    /\ NestedPasses
    /\ last.props.userOnly
    /\ Select(".timeline-items") # {}
    /\ \E i \in 1..Len(items) : items[i].doctype = "Communication" /\ items[i].name # ""

FetchEvents == {k \in 1..Len(last.trace) : last.trace[k].sink = "frappe.call"}

\* C29: a timeline call issues one fetch if everything the fetch depends on
\* holds and none otherwise, and the hiding of all timeline items precedes
\* the fetch.
C29_FetchIffDue ==
    last.op = "timeline" =>
        /\ Cardinality(FetchEvents) = (IF FetchDue THEN 1 ELSE 0)
        /\ \A k \in FetchEvents :
              /\ \E j \in 1..(k - 1) :
                    last.trace[j].sink = "hide" /\ last.trace[j].text = <<".timeline-item">>
              /\ \A i \in 1..Len(items) : ItemHidden(i)

\* A userOnly call on a timeline that holds a named Communication next to
\* an item that is not one has hidden both and left one fetch in flight.
C29_Witness ==
    /\ last.op = "timeline"
    /\ FetchDue
    /\ Cardinality(FetchEvents) = 1
    /\ Len(pending) >= 1
    /\ \E i \in 1..Len(items) : items[i].doctype # "Communication" /\ ItemHidden(i)

----------------------------------------------------------------------------
(* C30 *)

\* The invocations of the caller's conditional (top-level or nested) the
\* last call made.
ConditionalCalls ==
    {k \in 1..Len(last.trace) : last.trace[k].sink = "conditional"}

\* C30: no call invokes the caller-supplied conditional more than once.
C30_ConditionalAtMostOnce == Cardinality(ConditionalCalls) <= 1

====
